---- MODULE Spec2Model ----
(***************************************************************************)
(* FilterControl (ResourceList) of polaris: the applied-filter collection  *)
(* under handleAddFilter / handleRemoveFilter, the memoized remove         *)
(* callbacks, and the label computed for every applied filter by           *)
(* getFilterLabel / findFilterLabelByType.                                 *)
(*                                                                         *)
(* A JavaScript string is a sequence of one-character strings, so that     *)
(* concatenation, equality and replace are computed, not assumed.  Text    *)
(* that comes from outside the file (the translation-key prefix and the    *)
(* translated phrases of intl) is a single opaque token inside such a      *)
(* sequence.  Arrays are 1-based here; an index of 0 is JavaScript's -1.   *)
(*                                                                         *)
(* The host is taken to adopt every collection reported to it through      *)
(* onFiltersChange, after which the component renders again.  The search   *)
(* field, additionalAction and context.selectMode (which only reaches the  *)
(* disabled attribute of child components) are left out.                   *)
(***************************************************************************)
EXTENDS Integers, Sequences, FiniteSets, TLC

\* ------------------------------------------------------------- bounds
\* Longest applied-filter collection the host is let to hold.
MaxFilters == 3
\* Longest filter catalog (props.filters) the labels are computed against.
MaxCatalog == 2
\* Longest collection the labels are computed for.
MaxLabelled == 1

\* ------------------------------------------------------------ strings
\* JavaScript's undefined: a token no string of the model contains.
Undefined == <<"undefined">>

\* JavaScript truthiness of an optional string: defined and not "".
Truthy(s) == s # Undefined /\ s # <<>>

\* Array.prototype.join renders undefined as the empty string.
JoinStr(s) == IF s = Undefined THEN <<>> ELSE s

\* First index whose flag is set, 0 when there is none
\* (Array.prototype.find / findIndex walk the array from the front).
RECURSIVE findIndexFrom(_, _)
findIndexFrom(flags, i) ==
    IF i > Len(flags) THEN 0
    ELSE IF flags[i] THEN i
    ELSE findIndexFrom(flags, i + 1)

\* Last index whose flag is set, 0 when there is none.
RECURSIVE findLastIndexFrom(_, _)
findLastIndexFrom(flags, i) ==
    IF i < 1 THEN 0
    ELSE IF flags[i] THEN i
    ELSE findLastIndexFrom(flags, i - 1)

\* String.prototype.replace(/-/g, '/').
RECURSIVE replaceDashes(_)
replaceDashes(s) ==
    IF s = <<>> THEN <<>>
    ELSE <<IF Head(s) = "-" THEN "/" ELSE Head(s)>> \o replaceDashes(Tail(s))

\* --------------------------------------------------- the input universe
kAB == <<"a", "-", "b">>
kA == <<"a">>
kT == <<"t">>
kD == <<"d">>
kM == <<"m">>
kN == <<"n">>
kQ == <<"q">>
vC == <<"c">>
vBC == <<"b", "-", "c">>
vS == <<"s">>
vPastWeek == <<"p", "a", "s", "t", "_", "w", "e", "e", "k">>
vIsoDate == <<"2", "0", "2", "0", "-", "0", "1", "-", "1", "5">>

\* Candidate applied filters (what FilterCreator or the host may supply).
AppliedFilterChoices ==
    { [key |-> kAB, value |-> vC, label |-> Undefined],
      [key |-> kA, value |-> vBC, label |-> Undefined],
      [key |-> kAB, value |-> vC, label |-> <<"L">>],
      [key |-> kT, value |-> vS, label |-> <<>>],
      [key |-> kD, value |-> vPastWeek, label |-> Undefined] }

\* Candidate applied filters the labels are computed for.
LabelledFilterChoices ==
    AppliedFilterChoices \cup
    { [key |-> kD, value |-> vC, label |-> Undefined],
      [key |-> kM, value |-> vIsoDate, label |-> Undefined],
      [key |-> kM, value |-> vBC, label |-> Undefined] }

StringOption(s) == [isString |-> TRUE, value |-> s, label |-> s]
ObjectOption(v, l) == [isString |-> FALSE, value |-> v, label |-> l]

\* Candidate filter definitions (entries of props.filters).
FilterChoices ==
    { [key |-> kA, label |-> <<"A">>, operatorText |-> <<"i", "s">>,
       type |-> "TextField", options |-> <<>>,
       minKey |-> Undefined, maxKey |-> Undefined],
      [key |-> kT, label |-> <<"T">>, operatorText |-> Undefined,
       type |-> "Select",
       options |-> <<ObjectOption(vS, <<"S", "m">>), StringOption(vS)>>,
       minKey |-> Undefined, maxKey |-> Undefined],
      [key |-> kD, label |-> <<"D">>, operatorText |-> Undefined,
       type |-> "DateSelector", options |-> <<>>,
       minKey |-> kN, maxKey |-> kM],
      [key |-> kM, label |-> <<"K">>, operatorText |-> <<"i", "s">>,
       type |-> "DateSelector", options |-> <<>>,
       minKey |-> Undefined, maxKey |-> kM],
      [key |-> kQ, label |-> <<"Q">>, operatorText |-> Undefined,
       type |-> "DateSelector", options |-> <<>>,
       minKey |-> kM, maxKey |-> kM],
      [key |-> kQ, label |-> <<"N">>, operatorText |-> <<>>,
       type |-> "DateSelector", options |-> <<>>,
       minKey |-> kM, maxKey |-> Undefined],
      [key |-> kQ, label |-> <<"X">>, operatorText |-> Undefined,
       type |-> "TextField", options |-> <<>>,
       minKey |-> Undefined, maxKey |-> kAB] }

SeqsUpTo(S, n) == UNION { [1..k -> S] : k \in 0..n }

\* ------------------------------------------------------------- intl
\* Prefix of the single-date translation keys (opaque token).
FilterLabelForValue ==
    <<"Polaris.ResourceList.DateSelector.FilterLabelForValue.">>

\* Keys the translation catalog holds, of those a model value can build.
TranslationKeys ==
    { FilterLabelForValue \o vPastWeek }

translationKeyExists(key) == key \in TranslationKeys

\* intl.translate(key): the phrase the catalog holds for key (opaque token).
translate(key) == <<"intl:">> \o key

\* intl.translate(key, {date}): the phrase with its {date} placeholder filled.
translateDate(phrase, date) == <<"intl:", phrase, "(">> \o date \o <<")">>

\* ------------------------------------------------------------- dates
\* new Date(s).getTime() of the host engine: [y, m, d], or <<>> for NaN.
\* An all-digit ISO date and its slash form parse; nothing else the model
\* can build does.
DateParse(s) ==
    IF s = vIsoDate \/ s = replaceDashes(vIsoDate)
    THEN <<2020, 1, 15>>
    ELSE <<>>

Digit(n) == <<"0", "1", "2", "3", "4", "5", "6", "7", "8", "9">>[n + 1]

RECURSIVE Digits(_)
Digits(n) == IF n < 10 THEN <<Digit(n)>> ELSE Digits(n \div 10) \o <<Digit(n % 10)>>

\* Date.prototype.toLocaleDateString() (en-US): m/d/yyyy.
toLocaleDateString(d) ==
    IF d = <<>> THEN <<"Invalid Date">>
    ELSE Digits(d[2]) \o <<"/">> \o Digits(d[3]) \o <<"/">> \o Digits(d[1])

formatDateForLabelDisplay(date) ==
    IF DateParse(date) = <<>> THEN date
    ELSE toLocaleDateString(DateParse(replaceDashes(date)))

\* --------------------------------------------------- identity, add, remove
idFromFilter(appliedFilter) ==
    appliedFilter.key \o <<"-">> \o appliedFilter.value

\* handleAddFilter's find: index of the entry found, 0 for undefined.
addFoundFilterByReference(appliedFilters, newFilter) == 0

addFoundFilter(appliedFilters, newFilter) ==
    findIndexFrom([i \in 1..Len(appliedFilters) |->
                      idFromFilter(appliedFilters[i]) = idFromFilter(newFilter)], 1)

addNewAppliedFiltersPrepend(appliedFilters, newFilter) ==
    <<newFilter>> \o appliedFilters

\* [...appliedFilters, newFilter]
addNewAppliedFilters(appliedFilters, newFilter) ==
    appliedFilters \o <<newFilter>>

removeFoundIndex(appliedFilters, filterId) ==
    findIndexFrom([i \in 1..Len(appliedFilters) |->
                      idFromFilter(appliedFilters[i]) = filterId], 1)

removeNewAppliedFiltersOffByOne(appliedFilters, foundIndex) ==
    IF foundIndex > 0
    THEN SubSeq(appliedFilters, 1, foundIndex)
         \o SubSeq(appliedFilters, foundIndex + 1, Len(appliedFilters))
    ELSE appliedFilters

removeNewAppliedFiltersAll(appliedFilters, foundIndex) ==
    IF foundIndex > 0
    THEN SelectSeq(appliedFilters,
                   LAMBDA f: idFromFilter(f) # idFromFilter(appliedFilters[foundIndex]))
    ELSE appliedFilters

\* slice(0, foundIndex) ++ slice(foundIndex + 1), or a copy when not found.
removeNewAppliedFilters(appliedFilters, foundIndex) ==
    IF foundIndex > 0
    THEN SubSeq(appliedFilters, 1, foundIndex - 1)
         \o SubSeq(appliedFilters, foundIndex + 1, Len(appliedFilters))
    ELSE appliedFilters

\* ---------------------------------------------------------- labels
\* The predicate of getFilterLabel's filters.find.
filterMatchesKeyOnly(filter, key) == filter.key = key

filterMatches(filter, key) ==
    IF Truthy(filter.minKey) \/ Truthy(filter.maxKey)
    THEN filter.key = key \/ filter.minKey = key \/ filter.maxKey = key
    ELSE filter.key = key

findFilterLast(filters, key) ==
    findLastIndexFrom([i \in 1..Len(filters) |-> filterMatches(filters[i], key)],
                      Len(filters))

\* filters.find(...): index of the definition found, 0 for undefined.
findFilter(filters, key) ==
    findIndexFrom([i \in 1..Len(filters) |-> filterMatches(filters[i], key)], 1)

\* filter.options.find(...): index of the option found, 0 for undefined.
foundFilterOption(filter, appliedFilterValue) ==
    findIndexFrom([i \in 1..Len(filter.options) |->
                      filter.options[i].value = appliedFilterValue], 1)

\* The option's label when the option found is truthy, else Undefined.
selectLabel(filter, appliedFilterValue) ==
    LET i == foundFilterOption(filter, appliedFilterValue)
    IN  IF i = 0 THEN Undefined
        ELSE IF filter.options[i].isString
             THEN (IF filter.options[i].value = <<>> THEN Undefined
                   ELSE filter.options[i].value)
             ELSE filter.options[i].label

dateSelectorLabelMinFirst(filter, appliedFilter) ==
    IF appliedFilter.key = filter.minKey
    THEN translateDate("on_or_after", formatDateForLabelDisplay(appliedFilter.value))
    ELSE IF appliedFilter.key = filter.maxKey
    THEN translateDate("on_or_before", formatDateForLabelDisplay(appliedFilter.value))
    ELSE IF filter.key = appliedFilter.key
    THEN (IF translationKeyExists(FilterLabelForValue \o appliedFilter.value)
          THEN translate(FilterLabelForValue \o appliedFilter.value)
          ELSE appliedFilter.value)
    ELSE appliedFilter.value

\* The DateSelector block, falling through to the final return.
dateSelectorLabel(filter, appliedFilter) ==
    IF filter.key = appliedFilter.key
    THEN (IF translationKeyExists(FilterLabelForValue \o appliedFilter.value)
          THEN translate(FilterLabelForValue \o appliedFilter.value)
          ELSE appliedFilter.value)
    ELSE IF appliedFilter.key = filter.maxKey
    THEN translateDate("on_or_before", formatDateForLabelDisplay(appliedFilter.value))
    ELSE IF appliedFilter.key = filter.minKey
    THEN translateDate("on_or_after", formatDateForLabelDisplay(appliedFilter.value))
    ELSE appliedFilter.value

findFilterLabelByType(filter, appliedFilter) ==
    IF filter.type = "Select" /\ selectLabel(filter, appliedFilter.value) # Undefined
    THEN selectLabel(filter, appliedFilter.value)
    ELSE IF filter.type = "DateSelector"
    THEN dateSelectorLabel(filter, appliedFilter)
    ELSE appliedFilter.value

RECURSIVE joinCompact(_)
joinCompact(filterLabels) ==
    IF filterLabels = <<>> THEN <<>>
    ELSE IF ~Truthy(Head(filterLabels)) THEN joinCompact(Tail(filterLabels))
    ELSE IF joinCompact(Tail(filterLabels)) = <<>> THEN Head(filterLabels)
    ELSE Head(filterLabels) \o <<" ">> \o joinCompact(Tail(filterLabels))

\* filterLabels.join(' ')
RECURSIVE join(_)
join(filterLabels) ==
    IF filterLabels = <<>> THEN <<>>
    ELSE IF Len(filterLabels) = 1 THEN JoinStr(Head(filterLabels))
    ELSE JoinStr(Head(filterLabels)) \o <<" ">> \o join(Tail(filterLabels))

unmatchedLabelWithKey(appliedFilter) == idFromFilter(appliedFilter)

\* What getFilterLabel returns when no definition is found.
unmatchedLabel(appliedFilter) == appliedFilter.value

getFilterLabel(appliedFilter, filters) ==
    IF Truthy(appliedFilter.label) THEN appliedFilter.label
    ELSE LET i == findFilter(filters, appliedFilter.key)
         IN  IF i = 0 THEN unmatchedLabel(appliedFilter)
             ELSE join(<<filters[i].label, filters[i].operatorText,
                         findFilterLabelByType(filters[i], appliedFilter)>>)

\* ------------------------------------------------------ the component
VARIABLES
    appliedFilters,      \* props.appliedFilters, the host's collection
    filters,             \* props.filters, the catalog
    hasOnFiltersChange,  \* whether props.onFiltersChange is given
    mounted,             \* whether render has run
    memo,                \* cache of @memoize() getRemoveFilterCallback, by filterId
    tags,                \* the rendered applied-filter markup: key, label, onRemove
    last                 \* history: the last handler run, and the one before it

vars == <<appliedFilters, filters, hasOnFiltersChange, mounted, memo, tags, last>>

getRemoveFilterCallbackUnkeyed(cache, filterId) ==
    IF DOMAIN cache # {}
    THEN cache[CHOOSE id \in DOMAIN cache : TRUE]
    ELSE [filterId |-> filterId]

\* The closure for filterId: the cached one, else a new one.  The closure
\* holds `this` and filterId, nothing of the props in force when it is made.
getRemoveFilterCallback(cache, filterId) ==
    IF filterId \in DOMAIN cache
    THEN cache[filterId]
    ELSE [filterId |-> filterId]

\* The memoize cache once render has asked for the callbacks of entries i..
RECURSIVE memoAfterRender(_, _, _)
memoAfterRender(cache, props, i) ==
    IF i > Len(props) THEN cache
    ELSE LET filterId == idFromFilter(props[i])
             callback == getRemoveFilterCallback(cache, filterId)
         IN  memoAfterRender(
                 [id \in (DOMAIN cache) \cup {filterId} |->
                     IF id \in DOMAIN cache THEN cache[id] ELSE callback],
                 props, i + 1)

\* appliedFiltersMarkup of render.
appliedFiltersMarkup(cache, props, catalog) ==
    [i \in 1..Len(props) |->
        [key |-> idFromFilter(props[i]),
         label |-> getFilterLabel(props[i], catalog),
         onRemove |-> memoAfterRender(cache, props, 1)[idFromFilter(props[i])]]]

NoFilter == [key |-> <<>>, value |-> <<>>, label |-> Undefined]
NoCallback == [filterId |-> <<>>]
NoStep == [op |-> "none", filter |-> NoFilter, filterId |-> <<>>,
           before |-> <<>>, called |-> FALSE]
Brief(step) == [op |-> step.op, filter |-> step.filter, filterId |-> step.filterId,
                before |-> step.before, called |-> step.called]

\* The component constructed with the host's props, not yet rendered.
Constructed(collections, catalogs) ==
    /\ appliedFilters \in collections
    /\ filters \in catalogs
    /\ hasOnFiltersChange \in BOOLEAN
    /\ mounted = FALSE
    /\ memo = <<>>
    /\ tags = <<>>
    /\ last = [op |-> "none", filter |-> NoFilter, filterId |-> <<>>,
               callback |-> NoCallback, before |-> <<>>, called |-> FALSE,
               reported |-> <<>>, prev |-> NoStep]

NoDuplicateIds(collection) ==
    \A i, j \in 1..Len(collection) :
        idFromFilter(collection[i]) = idFromFilter(collection[j]) => i = j

\* Catalogs the collection is driven under: none, and one of two definitions.
DrivenCatalogs ==
    { <<>> } \cup
    { c \in SeqsUpTo(FilterChoices, 2) :
        Len(c) = 2 /\ c[1].key = kA /\ c[2].key = kT }

\* Constructed on a collection without duplicate ids.
Init ==
    Constructed({ c \in SeqsUpTo(AppliedFilterChoices, MaxFilters) : NoDuplicateIds(c) },
                DrivenCatalogs)

\* Constructed on any collection the host may hold.
InitAny ==
    Constructed(SeqsUpTo(AppliedFilterChoices, MaxFilters), DrivenCatalogs)

\* Constructed on a short collection and any catalog.
InitLabels ==
    Constructed(SeqsUpTo(LabelledFilterChoices, MaxLabelled),
                SeqsUpTo(FilterChoices, MaxCatalog))

\* render() with the props in force.
Rendered(newAppliedFilters) ==
    /\ memo' = memoAfterRender(memo, newAppliedFilters, 1)
    /\ tags' = appliedFiltersMarkup(memo, newAppliedFilters, filters)

\* The first render.
render ==
    /\ ~mounted
    /\ mounted' = TRUE
    /\ Rendered(appliedFilters)
    /\ UNCHANGED <<appliedFilters, filters, hasOnFiltersChange, last>>

\* The host's onFiltersChange: it takes the reported collection as its own,
\* and the component renders again with it.
onFiltersChange(newAppliedFilters) ==
    /\ appliedFilters' = newAppliedFilters
    /\ Rendered(newAppliedFilters)

\* FilterCreator (rendered when the catalog is not empty) calls onAddFilter.
handleAddFilter(newFilter) ==
    /\ mounted
    /\ Len(filters) > 0
    /\ LET foundFilter == addFoundFilter(appliedFilters, newFilter)
           called == hasOnFiltersChange /\ foundFilter = 0
           newAppliedFilters == addNewAppliedFilters(appliedFilters, newFilter)
       IN  /\ called => Len(appliedFilters) < MaxFilters
           /\ IF called
              THEN onFiltersChange(newAppliedFilters)
              ELSE UNCHANGED <<appliedFilters, memo, tags>>
           /\ last' = [op |-> "add", filter |-> newFilter,
                       filterId |-> idFromFilter(newFilter),
                       callback |-> NoCallback, before |-> appliedFilters,
                       called |-> called,
                       reported |-> IF called THEN newAppliedFilters ELSE <<>>,
                       prev |-> Brief(last)]
    /\ UNCHANGED <<filters, hasOnFiltersChange, mounted>>

\* The i-th Tag's onRemove runs: the memoized closure calls
\* handleRemoveFilter(filterId).
handleRemoveFilter(i) ==
    /\ mounted
    /\ i \in 1..Len(tags)
    /\ LET callback == tags[i].onRemove
           foundIndex == removeFoundIndex(appliedFilters, callback.filterId)
           newAppliedFilters == removeNewAppliedFilters(appliedFilters, foundIndex)
       IN  /\ IF hasOnFiltersChange
              THEN onFiltersChange(newAppliedFilters)
              ELSE UNCHANGED <<appliedFilters, memo, tags>>
           /\ last' = [op |-> "remove", filter |-> NoFilter,
                       filterId |-> tags[i].key,
                       callback |-> callback, before |-> appliedFilters,
                       called |-> hasOnFiltersChange,
                       reported |-> IF hasOnFiltersChange THEN newAppliedFilters
                                    ELSE <<>>,
                       prev |-> Brief(last)]
    /\ UNCHANGED <<filters, hasOnFiltersChange, mounted>>

Next ==
    \/ render
    \/ \E newFilter \in AppliedFilterChoices : handleAddFilter(newFilter)
    \/ \E i \in 1..(MaxFilters + 1) : handleRemoveFilter(i)

\* A collection without duplicate ids, driven by add and remove.
Spec == Init /\ [][Next]_vars

\* Any collection, driven by add and remove.
SpecAny == InitAny /\ [][Next]_vars

\* The labels of the first render, for any catalog.
SpecLabels == InitLabels /\ [][render]_vars

\* ------------------------------------------------- the collection claims
IdsOf(collection) == { idFromFilter(collection[i]) : i \in 1..Len(collection) }

HitsOf(collection, filterId) ==
    { i \in 1..Len(collection) : idFromFilter(collection[i]) = filterId }

Least(S) == CHOOSE n \in S : \A m \in S : n <= m

RECURSIVE ExciseFirst(_, _)
ExciseFirst(collection, filterId) ==
    IF collection = <<>> THEN <<>>
    ELSE IF idFromFilter(Head(collection)) = filterId THEN Tail(collection)
    ELSE <<Head(collection)>> \o ExciseFirst(Tail(collection), filterId)

\* C1: a collection that starts without two entries of the same id has no
\* two entries of the same id after any sequence of adds and removes.
C1_NoDuplicateIds == NoDuplicateIds(appliedFilters)

\* A duplicate was offered and dropped after an add and a remove went through.
C1_Witness ==
    /\ last.op = "add" /\ hasOnFiltersChange /\ ~last.called
    /\ last.prev.op = "remove" /\ last.prev.called
    /\ Len(appliedFilters) >= 2

\* C2: add is first-wins: with an entry of the same id present the collection
\* stays exactly as it was (the new filter is dropped and nothing is reported);
\* otherwise the new filter becomes the last element and every existing entry
\* keeps its position.
C2_AddFirstWins ==
    (last.op = "add" /\ hasOnFiltersChange) =>
        IF HitsOf(last.before, idFromFilter(last.filter)) # {}
        THEN ~last.called /\ appliedFilters = last.before
        ELSE /\ last.called
             /\ last.reported = appliedFilters
             /\ Len(appliedFilters) = Len(last.before) + 1
             /\ appliedFilters[Len(appliedFilters)] = last.filter
             /\ \A i \in 1..Len(last.before) : appliedFilters[i] = last.before[i]

\* A filter was appended to a non-empty collection, then one of the same id
\* and another label was offered and dropped.
C2_Witness ==
    /\ last.op = "add" /\ hasOnFiltersChange /\ ~last.called
    /\ \E i \in 1..Len(appliedFilters) :
          /\ idFromFilter(appliedFilters[i]) = idFromFilter(last.filter)
          /\ appliedFilters[i].label # last.filter.label
    /\ last.prev.op = "add" /\ last.prev.called /\ Len(last.prev.before) >= 1

\* C3: removing id(f) right after adding an f whose id the collection C did
\* not hold gives back C, element for element.
C3_RemoveUndoesFreshAdd ==
    ( /\ last.op = "remove" /\ hasOnFiltersChange
      /\ last.prev.op = "add"
      /\ HitsOf(last.prev.before, idFromFilter(last.prev.filter)) = {}
      /\ last.filterId = idFromFilter(last.prev.filter) )
    => /\ last.called
       /\ last.reported = last.prev.before
       /\ appliedFilters = last.prev.before

\* A fresh filter was added to a non-empty collection and removed again.
C3_Witness ==
    /\ last.op = "remove" /\ last.called
    /\ last.prev.op = "add" /\ last.prev.called
    /\ last.filterId = idFromFilter(last.prev.filter)
    /\ Len(last.prev.before) >= 1
    /\ Len(last.before) = Len(last.prev.before) + 1

\* C4: remove takes out exactly the first entry of the id and keeps every
\* other entry, later entries of the same id included, in order; for an id
\* no entry has, the result has the same elements in the same order.
C4_RemoveFirstOnly ==
    /\ (last.op = "remove" /\ last.called) =>
          LET hits == HitsOf(last.before, last.callback.filterId)
          IN  IF hits = {} THEN last.reported = last.before
              ELSE /\ Len(last.reported) = Len(last.before) - 1
                   /\ \A j \in 1..Len(last.reported) :
                         last.reported[j] =
                            IF j < Least(hits) THEN last.before[j]
                            ELSE last.before[j + 1]
    /\ \A f \in AppliedFilterChoices :
          idFromFilter(f) \notin IdsOf(appliedFilters) =>
             removeNewAppliedFilters(
                 appliedFilters,
                 removeFoundIndex(appliedFilters, idFromFilter(f))) = appliedFilters

\* An id held by two entries, with another entry in front, was removed.
C4_Witness ==
    /\ last.op = "remove" /\ last.called
    /\ Cardinality(HitsOf(last.before, last.callback.filterId)) = 2
    /\ Least(HitsOf(last.before, last.callback.filterId)) = 2
    /\ \E f \in AppliedFilterChoices : idFromFilter(f) \notin IdsOf(appliedFilters)

\* C9: add drops a new filter only when an entry has the same key and the
\* same value; any other new filter is appended.
C9_DuplicateOnlyOfSameKeyAndValue ==
    ( /\ last.op = "add" /\ hasOnFiltersChange
      /\ \A i \in 1..Len(last.before) :
            ~(last.before[i].key = last.filter.key
              /\ last.before[i].value = last.filter.value) )
    => /\ last.called
       /\ appliedFilters = last.before \o <<last.filter>>

\* C10: a Tag's cached remove handler, whenever it runs, reports the host's
\* collection of that moment with the first entry of the Tag's id taken out:
\* an entry added since the handler was cached is kept, an entry removed
\* since does not come back.  The cache holds one handler per id.
C10_CachedHandlerUsesCurrentCollection ==
    /\ \A id \in DOMAIN memo : memo[id].filterId = id
    /\ \A i \in 1..Len(tags) : tags[i].onRemove = memo[tags[i].key]
    /\ (last.op = "remove" /\ last.called) =>
          /\ last.reported = ExciseFirst(last.before, last.filterId)
          /\ appliedFilters = last.reported
          /\ (last.prev.op = "add" /\ last.prev.called
              /\ last.prev.filterId # last.filterId) =>
                 \E i \in 1..Len(appliedFilters) : appliedFilters[i] = last.prev.filter
          /\ (last.prev.op = "remove" /\ last.prev.called
              /\ Cardinality(HitsOf(last.prev.before, last.prev.filterId)) = 1) =>
                 last.prev.filterId \notin IdsOf(appliedFilters)

\* The handler of an id that was rendered, hence cached, before another
\* filter was added ran after that add.
C10_Witness ==
    /\ last.op = "remove" /\ last.called
    /\ last.prev.op = "add" /\ last.prev.called
    /\ last.filterId # last.prev.filterId
    /\ last.filterId \in IdsOf(last.prev.before)
    /\ \E i \in 1..Len(appliedFilters) : appliedFilters[i] = last.prev.filter
    /\ last.filterId \in DOMAIN memo

\* ------------------------------------------------------ the label claims
\* An applied filter carries a label override when its label is a non-empty
\* string.
HasOverride(appliedFilter) ==
    appliedFilter.label # Undefined /\ appliedFilter.label # <<>>

\* A definition claims a key by its key, or by a minKey or maxKey it has.
Claims(definition, key) ==
    \/ definition.key = key
    \/ definition.minKey # Undefined /\ definition.minKey = key
    \/ definition.maxKey # Undefined /\ definition.maxKey = key

\* A definition matches a key as the claim words it.
MatchesAsClaimed(definition, key) ==
    IF definition.minKey # Undefined \/ definition.maxKey # Undefined
    THEN definition.key = key \/ definition.minKey = key \/ definition.maxKey = key
    ELSE definition.key = key

KeyChoices == { f.key : f \in LabelledFilterChoices } \cup { kN, kQ }

StartsWith(s, prefix) ==
    Len(s) >= Len(prefix) /\ SubSeq(s, 1, Len(prefix)) = prefix

EndsWith(s, suffix) ==
    Len(s) >= Len(suffix) /\ SubSeq(s, Len(s) - Len(suffix) + 1, Len(s)) = suffix

\* C5: the definition found for a key is the first one in catalog order that
\* matches it (by key, or by minKey / maxKey when it has either), none when no
\* definition matches; the label of an applied filter is built from that one.
C5_FirstMatchingDefinition ==
    /\ \A key \in KeyChoices :
          LET found == findFilter(filters, key)
              matching == { j \in 1..Len(filters) : MatchesAsClaimed(filters[j], key) }
          IN  IF matching = {} THEN found = 0 ELSE found = Least(matching)
    /\ \A i \in 1..Len(tags) :
          LET matching == { j \in 1..Len(filters) :
                              MatchesAsClaimed(filters[j], appliedFilters[i].key) }
          IN  (~HasOverride(appliedFilters[i]) /\ matching # {}) =>
                 StartsWith(tags[i].label, filters[Least(matching)].label \o <<" ">>)

\* Two different definitions claim the rendered filter's key, the second one
\* by its key and the first one not by its key.
C5_Witness ==
    /\ mounted /\ Len(tags) = 1 /\ Len(filters) = 2
    /\ ~HasOverride(appliedFilters[1])
    /\ filters[1].label # filters[2].label
    /\ filters[1].key # appliedFilters[1].key
    /\ MatchesAsClaimed(filters[1], appliedFilters[1].key)
    /\ filters[2].key = appliedFilters[1].key
    /\ StartsWith(tags[1].label, filters[1].label \o <<" ">>)

\* The type-specific label of a DateSelector definition, by the claim's
\* priority order; a translated phrase is told by its first two tokens.
IsDateLabelAsClaimed(result, definition, appliedFilter) ==
    IF definition.key = appliedFilter.key
    THEN result = (IF (FilterLabelForValue \o appliedFilter.value) \in TranslationKeys
                   THEN translate(FilterLabelForValue \o appliedFilter.value)
                   ELSE appliedFilter.value)
    ELSE IF appliedFilter.key = definition.maxKey
    THEN Len(result) >= 2 /\ result[1] = "intl:" /\ result[2] = "on_or_before"
    ELSE IF appliedFilter.key = definition.minKey
    THEN Len(result) >= 2 /\ result[1] = "intl:" /\ result[2] = "on_or_after"
    ELSE result = appliedFilter.value

\* C6: for a DateSelector definition the type-specific label is the
\* single-date result when the definition's key is the applied key, else the
\* "on or before" phrase when maxKey is, else the "on or after" phrase when
\* minKey is, else the raw value; the rendered label ends with it.
C6_DateSelectorPriority ==
    /\ \A i \in 1..Len(appliedFilters), j \in 1..Len(filters) :
          filters[j].type = "DateSelector" =>
             IsDateLabelAsClaimed(
                 findFilterLabelByType(filters[j], appliedFilters[i]),
                 filters[j], appliedFilters[i])
    /\ \A i \in 1..Len(tags) :
          LET j == findFilter(filters, appliedFilters[i].key)
          IN  (~HasOverride(appliedFilters[i]) /\ j # 0
               /\ filters[j].type = "DateSelector") =>
                 \E result \in { findFilterLabelByType(filters[j], appliedFilters[i]) } :
                    /\ IsDateLabelAsClaimed(result, filters[j], appliedFilters[i])
                    /\ EndsWith(tags[i].label, <<" ">> \o result)

\* The rendered filter's key is both maxKey and minKey, and not the key, of
\* the DateSelector definition found for it.
C6_Witness ==
    /\ mounted /\ Len(tags) = 1
    /\ ~HasOverride(appliedFilters[1])
    /\ LET j == findFilter(filters, appliedFilters[1].key)
       IN  /\ j # 0
           /\ filters[j].type = "DateSelector"
           /\ filters[j].key # appliedFilters[1].key
           /\ filters[j].maxKey = appliedFilters[1].key
           /\ filters[j].minKey = appliedFilters[1].key
           /\ \E k \in 1..Len(tags[1].label) : tags[1].label[k] = "on_or_before"

\* C7: without an override and with a definition found, the label is the
\* definition's label, its operatorText and the type-specific label joined
\* with single spaces, none left out: an absent operatorText counts as the
\* empty string, which leaves two spaces in a row after the definition's label.
C7_ThreeFragmentsJoined ==
    \A i \in 1..Len(tags) :
        LET j == findFilter(filters, appliedFilters[i].key)
        IN  (~HasOverride(appliedFilters[i]) /\ j # 0) =>
               LET head == filters[j].label
                   operator == IF filters[j].operatorText = Undefined THEN <<>>
                               ELSE filters[j].operatorText
                   byType == findFilterLabelByType(filters[j], appliedFilters[i])
               IN  /\ tags[i].label = head \o <<" ">> \o operator \o <<" ">> \o byType
                   /\ filters[j].operatorText = Undefined =>
                         /\ SubSeq(tags[i].label, Len(head) + 1, Len(head) + 2)
                               = <<" ", " ">>
                         /\ EndsWith(tags[i].label, <<" ", " ">> \o byType)

\* A label was rendered from a definition that has no operatorText.
C7_Witness ==
    /\ mounted /\ Len(tags) = 1
    /\ ~HasOverride(appliedFilters[1])
    /\ findFilter(filters, appliedFilters[1].key) # 0
    /\ filters[findFilter(filters, appliedFilters[1].key)].operatorText = Undefined
    /\ \E k \in 1..(Len(tags[1].label) - 1) :
          tags[1].label[k] = " " /\ tags[1].label[k + 1] = " "

\* C8: without an override, and with a key that is no definition's key,
\* minKey or maxKey, the label is exactly the applied filter's raw value.
C8_UnmatchedKeyGivesRawValue ==
    \A i \in 1..Len(tags) :
        ( /\ ~HasOverride(appliedFilters[i])
          /\ \A j \in 1..Len(filters) : ~Claims(filters[j], appliedFilters[i].key) )
        => tags[i].label = appliedFilters[i].value

\* A filter was rendered against a non-empty catalog that does not claim its key.
C8_Witness ==
    /\ mounted /\ Len(tags) = 1 /\ Len(filters) = MaxCatalog
    /\ ~HasOverride(appliedFilters[1])
    /\ \A j \in 1..Len(filters) : ~Claims(filters[j], appliedFilters[1].key)
    /\ tags[1].label = appliedFilters[1].value

====
